---- MODULE Spec2Model ----
(***************************************************************************)
(* A model of pc-frame (src/main.py): the FrameConfig dataclass with its   *)
(* __post_init__ validation and material calculation, and create_frame,    *)
(* which builds the labelled assembly tree out of copies of three template *)
(* extrusions.  Python objects live in a heap (a sequence of records, an   *)
(* object's reference being its index), so that copying and aliasing are   *)
(* visible.  Lengths and coordinates are whole millimetres.                *)
(***************************************************************************)
EXTENDS Integers, Sequences, FiniteSets, TLC

VARIABLES
    config,     \* the FrameConfig object the caller holds, or NoConfig
    attempt,    \* the arguments of the FrameConfig(...) call made, or NoConfig
    error,      \* the exception raised by the last operation, or NoError
    lengths,    \* the dict the last operation returned, NoLengths if it returned none
    stdout,     \* the figures the last operation printed, NoPrint if it printed none
    heap,       \* the build123d objects created so far
    pc,         \* the position inside create_frame, "idle" outside of it
    fr,         \* the local variables of the running create_frame call
    returned,   \* the results of the create_frame calls that returned
    calls,      \* the number of create_frame calls started
    edits       \* the number of assignments made to the config after creation

vars == <<config, attempt, error, lengths, stdout, heap, pc, fr, returned, calls, edits>>

(***************************************************************************)
(* Bounds of the model and the values the inputs are drawn from.           *)
(***************************************************************************)
MaxBridges == 2
MaxCalls == 2
MaxEdits == 1

Widths == {20, 40, 60}
Heights == {20, 50}
Depths == {0, 50}
Positions == {-10, 0, 20, 30}

BridgeLists == UNION {[1..n -> Positions] : n \in 0..MaxBridges}

(***************************************************************************)
(* Module constants.                                                       *)
(***************************************************************************)
RIGHT_ANGLE == 90
EXTRUSION_2020_SIZE == 20

(***************************************************************************)
(* FrameConfig.                                                            *)
(***************************************************************************)
NoConfig ==
    [width |-> 0, height |-> 0, depth |-> 0,
     bottom_bridge_positions |-> <<>>, top_bridge_positions |-> <<>>,
     made |-> FALSE]

FrameConfig(w, h, d, bb, tb) ==
    [width |-> w, height |-> h, depth |-> d,
     bottom_bridge_positions |-> bb, top_bridge_positions |-> tb,
     made |-> TRUE]

NoError == [kind |-> "none", subject |-> "", check |-> "",
            index |-> <<>>, value |-> <<>>, bound |-> <<>>]

\* assert pos >= 0 failing: the message names the list, i + 1 and pos
NegativeError(subject, i, pos) ==
    [kind |-> "AssertionError", subject |-> subject, check |-> "negative",
     index |-> <<i>>, value |-> <<pos>>, bound |-> <<>>]

\* assert pos <= usable_width failing: the message also names usable_width
ExceedsError(subject, i, pos, usable_width) ==
    [kind |-> "AssertionError", subject |-> subject, check |-> "exceeds",
     index |-> <<i>>, value |-> <<pos>>, bound |-> <<usable_width>>]

\* assert self.<dim> >= min_dimension failing
MinimumError(subject, v, min_dimension) ==
    [kind |-> "AssertionError", subject |-> subject, check |-> "minimum",
     index |-> <<>>, value |-> <<v>>, bound |-> <<min_dimension>>]

\* one of the two validation loops, from its i-th entry (1-based) on
RECURSIVE CheckBridges(_, _, _, _)
CheckBridges(subject, positions, usable_width, i) ==
    IF i > Len(positions) THEN NoError
    ELSE IF ~(positions[i] >= 0) THEN NegativeError(subject, i, positions[i])
    ELSE IF ~(positions[i] <= usable_width)
         THEN ExceedsError(subject, i, positions[i], usable_width)
    ELSE CheckBridges(subject, positions, usable_width, i + 1)

CheckMinimum(subject, v, min_dimension) ==
    IF v >= min_dimension THEN NoError ELSE MinimumError(subject, v, min_dimension)

\* the first of the errors es that is raised, NoError when none is
RECURSIVE FirstError(_)
FirstError(es) ==
    IF es = <<>> THEN NoError
    ELSE IF Head(es).kind # "none" THEN Head(es)
    ELSE FirstError(Tail(es))

\* PostInit without the depth assertion
PostInit_NoDepthCheck(self) ==
    LET usable_width == self.width - 2 * EXTRUSION_2020_SIZE
        min_dimension == 2 * EXTRUSION_2020_SIZE
    IN  FirstError(<<
            CheckBridges("Bottom bridge", self.bottom_bridge_positions, usable_width, 1),
            CheckBridges("Top bridge", self.top_bridge_positions, usable_width, 1),
            CheckMinimum("Width", self.width, min_dimension),
            CheckMinimum("Height", self.height, min_dimension) >>)

\* PostInit with the minimum dimensions validated before the bridge positions
PostInit_DimensionsFirst(self) ==
    LET usable_width == self.width - 2 * EXTRUSION_2020_SIZE
        min_dimension == 2 * EXTRUSION_2020_SIZE
    IN  FirstError(<<
            CheckMinimum("Width", self.width, min_dimension),
            CheckMinimum("Height", self.height, min_dimension),
            CheckMinimum("Depth", self.depth, min_dimension),
            CheckBridges("Bottom bridge", self.bottom_bridge_positions, usable_width, 1),
            CheckBridges("Top bridge", self.top_bridge_positions, usable_width, 1) >>)

PostInit(self) ==
    LET usable_width == self.width - 2 * EXTRUSION_2020_SIZE
        min_dimension == 2 * EXTRUSION_2020_SIZE
    IN  FirstError(<<
            CheckBridges("Bottom bridge", self.bottom_bridge_positions, usable_width, 1),
            CheckBridges("Top bridge", self.top_bridge_positions, usable_width, 1),
            CheckMinimum("Width", self.width, min_dimension),
            CheckMinimum("Height", self.height, min_dimension),
            CheckMinimum("Depth", self.depth, min_dimension) >>)

NoLengths ==
    [vertical |-> [length |-> 0, count |-> 0, total |-> 0],
     horizontal |-> [length |-> 0, count |-> 0, total |-> 0],
     bridge |-> [length |-> 0, count |-> 0, total |-> 0,
                 bottom_count |-> 0, top_count |-> 0],
     total_length_mm |-> 0, computed |-> FALSE]

\* calculate_extrusion_lengths with the bridges shortened by two extrusion sizes
calculate_extrusion_lengths_ShortBridges(self) ==
    LET vertical_length == self.height - EXTRUSION_2020_SIZE
        horizontal_length == self.width
        bridge_length == self.depth - 2 * EXTRUSION_2020_SIZE
        num_bottom_bridges == Len(self.bottom_bridge_positions)
        num_top_bridges == Len(self.top_bridge_positions)
        num_bridges == num_bottom_bridges + num_top_bridges
    IN  [vertical |-> [length |-> vertical_length, count |-> 4,
                       total |-> 4 * vertical_length],
         horizontal |-> [length |-> horizontal_length, count |-> 4,
                         total |-> 4 * horizontal_length],
         bridge |-> [length |-> bridge_length, count |-> num_bridges,
                     total |-> num_bridges * bridge_length,
                     bottom_count |-> num_bottom_bridges,
                     top_count |-> num_top_bridges],
         total_length_mm |-> 4 * vertical_length + 4 * horizontal_length
                               + num_bridges * bridge_length,
         computed |-> TRUE]

calculate_extrusion_lengths(self) ==
    LET vertical_length == self.height - EXTRUSION_2020_SIZE
        horizontal_length == self.width
        bridge_length == self.depth - EXTRUSION_2020_SIZE
        num_verticals == 4
        num_horizontals == 4
        num_bottom_bridges == Len(self.bottom_bridge_positions)
        num_top_bridges == Len(self.top_bridge_positions)
        num_bridges == num_bottom_bridges + num_top_bridges
        total_vertical == num_verticals * vertical_length
        total_horizontal == num_horizontals * horizontal_length
        total_bridges == num_bridges * bridge_length
        total_length == total_vertical + total_horizontal + total_bridges
    IN  [vertical |-> [length |-> vertical_length, count |-> num_verticals,
                       total |-> total_vertical],
         horizontal |-> [length |-> horizontal_length, count |-> num_horizontals,
                         total |-> total_horizontal],
         bridge |-> [length |-> bridge_length, count |-> num_bridges,
                     total |-> total_bridges,
                     bottom_count |-> num_bottom_bridges,
                     top_count |-> num_top_bridges],
         total_length_mm |-> total_length, computed |-> TRUE]

(***************************************************************************)
(* build123d objects.  A Part or Compound carries a label, a location (a   *)
(* position and an orientation in degrees about X, Y, Z) and its children. *)
(* A reference is an index into the heap; 0 is an unbound name.            *)
(***************************************************************************)
Origin == <<0, 0, 0>>
NoRotation == <<0, 0, 0>>

\* bd.Location(position, orientation)
Location(position, orientation) == [position |-> position, orientation |-> orientation]

\* the Part that extrusion_2020 returns: unlabelled, at the identity location
NewPart(length) ==
    [kind |-> "Part", label |-> "", location |-> Location(Origin, NoRotation),
     length |-> length, children |-> <<>>]

\* bd.Compound(label=..., children=[...])
Compound(label, children) ==
    [kind |-> "Compound", label |-> label, location |-> Location(Origin, NoRotation),
     length |-> 0, children |-> children]

\* a new object on the heap: the heap afterwards and the reference to it
Alloc(h, obj) == [heap |-> Append(h, obj), ref |-> Len(h) + 1]

\* the failure of extrusion_2020 reported with an assert instead of a raise
ValueError_Assert == [kind |-> "AssertionError", subject |-> "Part creation failed",
                      check |-> "", index |-> <<>>, value |-> <<>>, bound |-> <<>>]

\* extrusion_2020(length): a new Part, or ValueError when no solid results
ValueError == [kind |-> "ValueError", subject |-> "Part creation failed", check |-> "",
               index |-> <<>>, value |-> <<>>, bound |-> <<>>]

extrusion_2020(h, length) == Alloc(h, NewPart(length))

\* copy.copy left out: the name is bound to the template itself
CopyShape_Alias(h, ref) == [heap |-> h, ref |-> ref]

\* copy.copy(shape): a new object with the same label, location and solid
CopyShape(h, ref) == Alloc(h, h[ref])

\* copy.deepcopy(shape): a new object whose children are deep copies too
RECURSIVE DeepCopy(_, _), DeepCopyAll(_, _)
DeepCopy(h, ref) ==
    LET kids == DeepCopyAll(h, h[ref].children)
    IN  Alloc(kids.heap, [h[ref] EXCEPT !.children = kids.refs])

\* deep copies of the objects refs, in order
DeepCopyAll(h, refs) ==
    IF refs = <<>> THEN [heap |-> h, refs |-> <<>>]
    ELSE LET first == DeepCopy(h, Head(refs))
             rest == DeepCopyAll(first.heap, Tail(refs))
         IN  [heap |-> rest.heap, refs |-> <<first.ref>> \o rest.refs]

\* obj.label = label
SetLabel(h, ref, label) == [h EXCEPT ![ref].label = label]

\* obj.location = location
SetLocation(h, ref, location) == [h EXCEPT ![ref].location = location]

\* str.startswith
StartsWith(s, prefix) ==
    Len(s) >= Len(prefix) /\ SubSeq(s, 1, Len(prefix)) = prefix

\* str.replace: every non-overlapping occurrence of old, left to right
RECURSIVE Replace(_, _, _)
Replace(s, old, new) ==
    IF Len(s) < Len(old) THEN s
    ELSE IF StartsWith(s, old)
         THEN new \o Replace(SubSeq(s, Len(old) + 1, Len(s)), old, new)
    ELSE SubSeq(s, 1, 1) \o Replace(SubSeq(s, 2, Len(s)), old, new)

\* the label numbered with the 0-based index i
BridgeLabel_ZeroBased(prefix, k) == prefix \o ToString(k - 1)

\* the label numbered from a counter that is never reset: one more than the
\* number of bridges of that kind made so far, by this call or an earlier one
BridgeLabel_Counter(prefix, k) ==
    prefix \o ToString(1 + Cardinality({ref \in 1..Len(heap) :
        /\ Len(heap[ref].label) > Len(prefix)
        /\ SubSeq(heap[ref].label, 1, Len(prefix)) = prefix}))

\* f"{prefix}{i + 1}" for the 0-based enumerate index i; k is i + 1
BridgeLabel(prefix, k) == prefix \o ToString(k)

(***************************************************************************)
(* The local variables of create_frame.                                    *)
(***************************************************************************)
NoLocals ==
    [vertical_extrusion |-> 0, horizontal_extrusion |-> 0, bridge_extrusion |-> 0,
     left1 |-> 0, right1 |-> 0, top1 |-> 0, bottom1 |-> 0,
     frame1 |-> 0, frame2 |-> 0, k |-> 0,
     bottom_bridges |-> <<>>, top_bridges |-> <<>>]

\* the locations of the four front members (lines 185-188)
FrontLeftLocation(c) == Location(Origin, NoRotation)
FrontRightLocation(c) ==
    Location(<<c.width - EXTRUSION_2020_SIZE, 0, 0>>, NoRotation)
\* the top member placed one extrusion size too low
FrontTopLocation_Low(c) ==
    Location(<<0, 0, c.height - EXTRUSION_2020_SIZE>>, <<0, RIGHT_ANGLE, 0>>)
FrontTopLocation(c) == Location(<<0, 0, c.height>>, <<0, RIGHT_ANGLE, 0>>)
FrontBottomLocation(c) == Location(Origin, <<0, RIGHT_ANGLE, 0>>)

\* the label a back_frame child gets (lines 202-203)
BackLabel(label) ==
    IF StartsWith(label, "front_") THEN Replace(label, "front_", "back_") ELSE label

\* the depth added to Z instead of Y
BackLocation_ShiftZ(c, location) ==
    LET pos_tuple == location.position
        rot_tuple == location.orientation
        new_pos == <<pos_tuple[1], pos_tuple[2], pos_tuple[3] + c.depth>>
    IN  Location(new_pos, rot_tuple)

\* the location a back_frame child gets (lines 206-224)
BackLocation(c, location) ==
    LET pos_tuple == location.position
        rot_tuple == location.orientation
        new_pos == <<pos_tuple[1], pos_tuple[2] + c.depth, pos_tuple[3]>>
    IN  Location(new_pos, rot_tuple)

\* the locations of the bridges (lines 231-238 and 245-252)
BottomBridgeLocation(c, x_pos) ==
    Location(<<x_pos, c.depth, -EXTRUSION_2020_SIZE>>, <<RIGHT_ANGLE, 0, 0>>)
TopBridgeLocation(c, x_pos) ==
    Location(<<x_pos, c.depth, c.height - EXTRUSION_2020_SIZE>>, <<RIGHT_ANGLE, 0, 0>>)

(***************************************************************************)
(* The initial state: nothing constructed, nothing built.                  *)
(***************************************************************************)
NoPrint == [vertical |-> <<>>, horizontal |-> <<>>, bridge |-> <<>>, total |-> <<>>]

Init ==
    /\ config = NoConfig
    /\ attempt = NoConfig
    /\ error = NoError
    /\ lengths = NoLengths
    /\ stdout = NoPrint
    /\ heap = <<>>
    /\ pc = "idle"
    /\ fr = NoLocals
    /\ returned = <<>>
    /\ calls = 0
    /\ edits = 0

(***************************************************************************)
(* FrameConfig(width, height, depth, bottom, top): the dataclass __init__  *)
(* stores the fields and runs __post_init__; when an assert fails the call *)
(* raises and the caller gets no object.                                   *)
(***************************************************************************)
Construct ==
    /\ pc = "idle"
    /\ ~attempt.made
    /\ \E w \in Widths, h \in Heights, d \in Depths,
          bb \in BridgeLists, tb \in BridgeLists :
         LET self == FrameConfig(w, h, d, bb, tb)
             raised == PostInit(self)
         IN  /\ attempt' = self
             /\ error' = raised
             /\ config' = IF raised.kind = "none" THEN self ELSE NoConfig
    /\ UNCHANGED <<lengths, stdout, heap, pc, fr, returned, calls, edits>>

\* config.calculate_extrusion_lengths()
CalculateExtrusionLengths ==
    /\ pc = "idle"
    /\ config.made
    /\ lengths' = calculate_extrusion_lengths(config)
    /\ stdout' = NoPrint
    /\ error' = NoError
    /\ UNCHANGED <<config, attempt, heap, pc, fr, returned, calls, edits>>

\* the figures print_material_summary prints: count, length and total of
\* each kind, the two bridge counts and the total length
print_material_summary(self) ==
    LET l == calculate_extrusion_lengths(self)
    IN  [vertical |-> <<l.vertical.count, l.vertical.length, l.vertical.total>>,
         horizontal |-> <<l.horizontal.count, l.horizontal.length, l.horizontal.total>>,
         bridge |-> <<l.bridge.count, l.bridge.length, l.bridge.total,
                      l.bridge.bottom_count, l.bridge.top_count>>,
         total |-> <<l.total_length_mm>>]

\* config.print_material_summary()
PrintMaterialSummary ==
    /\ pc = "idle"
    /\ config.made
    /\ stdout' = print_material_summary(config)
    /\ lengths' = NoLengths
    /\ error' = NoError
    /\ UNCHANGED <<config, attempt, heap, pc, fr, returned, calls, edits>>

(***************************************************************************)
(* create_frame(config), statement by statement.                           *)
(***************************************************************************)
\* the call itself
CallCreateFrame ==
    /\ pc = "idle"
    /\ config.made
    /\ calls < MaxCalls
    /\ calls' = calls + 1
    /\ pc' = "l171"
    /\ fr' = NoLocals
    /\ error' = NoError
    /\ lengths' = NoLengths
    /\ stdout' = NoPrint
    /\ UNCHANGED <<config, attempt, heap, returned, edits>>

\* the heap once the locals of a call that raised are dropped: the objects
\* the call made were referenced by its locals alone and are freed, and they
\* are those made after the root of the last call that returned
Released(h) ==
    SubSeq(h, 1, IF returned = <<>> THEN 0 ELSE returned[Len(returned)].root)

\* extrusion_2020 raising ValueError, which create_frame does not catch
RaiseValueError ==
    /\ error' = ValueError
    /\ pc' = "idle"
    /\ fr' = NoLocals
    /\ heap' = Released(heap)
    /\ UNCHANGED <<config, attempt, lengths, stdout, returned, calls, edits>>

\* the assignment of a new extrusion to a local name
Extruded(name, length, next) ==
    LET made == extrusion_2020(heap, length)
    IN  /\ heap' = made.heap
        /\ fr' = [fr EXCEPT ![name] = made.ref]
        /\ pc' = next
        /\ UNCHANGED <<config, attempt, error, lengths, stdout, returned, calls, edits>>

\* line 171
ExtrudeVertical ==
    /\ pc = "l171"
    /\ \E solid \in BOOLEAN :
         IF solid
         THEN Extruded("vertical_extrusion", config.height - EXTRUSION_2020_SIZE, "l172")
         ELSE RaiseValueError

\* line 172
ExtrudeHorizontal ==
    /\ pc = "l172"
    /\ \E solid \in BOOLEAN :
         IF solid
         THEN Extruded("horizontal_extrusion", config.width, "l173")
         ELSE RaiseValueError

\* line 173
ExtrudeBridge ==
    /\ pc = "l173"
    /\ \E solid \in BOOLEAN :
         IF solid
         THEN Extruded("bridge_extrusion", config.depth - EXTRUSION_2020_SIZE, "l175")
         ELSE RaiseValueError

\* lines 175-178
CopyTemplates ==
    /\ pc = "l175"
    /\ LET l == CopyShape(heap, fr.vertical_extrusion)
           r == CopyShape(l.heap, fr.vertical_extrusion)
           t == CopyShape(r.heap, fr.horizontal_extrusion)
           b == CopyShape(t.heap, fr.horizontal_extrusion)
       IN  /\ heap' = b.heap
           /\ fr' = [fr EXCEPT !.left1 = l.ref, !.right1 = r.ref,
                               !.top1 = t.ref, !.bottom1 = b.ref]
    /\ pc' = "l180"
    /\ UNCHANGED <<config, attempt, error, lengths, stdout, returned, calls, edits>>

\* lines 180-183
LabelFront ==
    /\ pc = "l180"
    /\ heap' = SetLabel(SetLabel(SetLabel(SetLabel(heap,
                   fr.left1, "front_left"),
                   fr.right1, "front_right"),
                   fr.top1, "front_top"),
                   fr.bottom1, "front_bottom")
    /\ pc' = "l185"
    /\ UNCHANGED <<config, attempt, error, lengths, stdout, fr, returned, calls, edits>>

\* lines 185-188
LocateFront ==
    /\ pc = "l185"
    /\ heap' = SetLocation(SetLocation(SetLocation(SetLocation(heap,
                   fr.left1, FrontLeftLocation(config)),
                   fr.right1, FrontRightLocation(config)),
                   fr.top1, FrontTopLocation(config)),
                   fr.bottom1, FrontBottomLocation(config))
    /\ pc' = "l190"
    /\ UNCHANGED <<config, attempt, error, lengths, stdout, fr, returned, calls, edits>>

\* lines 190-193
ComposeFront ==
    /\ pc = "l190"
    /\ LET f == Alloc(heap, Compound("front_frame",
                        <<fr.top1, fr.bottom1, fr.left1, fr.right1>>))
       IN  /\ heap' = f.heap
           /\ fr' = [fr EXCEPT !.frame1 = f.ref]
    /\ pc' = "l196"
    /\ UNCHANGED <<config, attempt, error, lengths, stdout, returned, calls, edits>>

\* lines 196-197
CopyFront ==
    /\ pc = "l196"
    /\ LET f == DeepCopy(heap, fr.frame1)
       IN  /\ heap' = SetLabel(f.heap, f.ref, "back_frame")
           /\ fr' = [fr EXCEPT !.frame2 = f.ref, !.k = 1]
    /\ pc' = "l200"
    /\ UNCHANGED <<config, attempt, error, lengths, stdout, returned, calls, edits>>

\* lines 200-224, one iteration: the k-th child of frame2
AdjustBackChild ==
    /\ pc = "l200"
    /\ fr.k <= Len(heap[fr.frame2].children)
    /\ LET child == heap[fr.frame2].children[fr.k]
           relabelled == SetLabel(heap, child, BackLabel(heap[child].label))
       IN  heap' = SetLocation(relabelled, child,
                               BackLocation(config, relabelled[child].location))
    /\ fr' = [fr EXCEPT !.k = fr.k + 1]
    /\ UNCHANGED <<config, attempt, error, lengths, stdout, pc, returned, calls, edits>>

\* lines 227-228: the loop over frame2.children is over
BeginBottomBridges ==
    /\ pc = "l200"
    /\ fr.k > Len(heap[fr.frame2].children)
    /\ fr' = [fr EXCEPT !.k = 1, !.bottom_bridges = <<>>]
    /\ pc' = "l228"
    /\ UNCHANGED <<config, attempt, error, lengths, stdout, heap, returned, calls, edits>>

\* lines 228-239, one iteration: the k-th bottom bridge
PlaceBottomBridge ==
    /\ pc = "l228"
    /\ fr.k <= Len(config.bottom_bridge_positions)
    /\ LET x_pos == config.bottom_bridge_positions[fr.k]
           bridge == CopyShape(heap, fr.bridge_extrusion)
           labelled == SetLabel(bridge.heap, bridge.ref,
                                BridgeLabel("bottom_bridge_", fr.k))
       IN  /\ heap' = SetLocation(labelled, bridge.ref,
                                  BottomBridgeLocation(config, x_pos))
           /\ fr' = [fr EXCEPT !.k = fr.k + 1,
                               !.bottom_bridges = Append(fr.bottom_bridges, bridge.ref)]
    /\ UNCHANGED <<config, attempt, error, lengths, stdout, pc, returned, calls, edits>>

\* lines 241-242: the loop over bottom_bridge_positions is over
BeginTopBridges ==
    /\ pc = "l228"
    /\ fr.k > Len(config.bottom_bridge_positions)
    /\ fr' = [fr EXCEPT !.k = 1, !.top_bridges = <<>>]
    /\ pc' = "l242"
    /\ UNCHANGED <<config, attempt, error, lengths, stdout, heap, returned, calls, edits>>

\* lines 242-253, one iteration: the k-th top bridge
PlaceTopBridge ==
    /\ pc = "l242"
    /\ fr.k <= Len(config.top_bridge_positions)
    /\ LET x_pos == config.top_bridge_positions[fr.k]
           bridge == CopyShape(heap, fr.bridge_extrusion)
           labelled == SetLabel(bridge.heap, bridge.ref,
                                BridgeLabel("top_bridge_", fr.k))
       IN  /\ heap' = SetLocation(labelled, bridge.ref,
                                  TopBridgeLocation(config, x_pos))
           /\ fr' = [fr EXCEPT !.k = fr.k + 1,
                               !.top_bridges = Append(fr.top_bridges, bridge.ref)]
    /\ UNCHANGED <<config, attempt, error, lengths, stdout, pc, returned, calls, edits>>

\* what the caller keeps of a call that returned: the root, the config the
\* call was given and the three templates the call made
Result(root, c, locals) ==
    [root |-> root, config |-> c, edits |-> edits,
     vertical_extrusion |-> locals.vertical_extrusion,
     horizontal_extrusion |-> locals.horizontal_extrusion,
     bridge_extrusion |-> locals.bridge_extrusion,
     frame1 |-> locals.frame1, frame2 |-> locals.frame2]

\* lines 255-257
ReturnFrame ==
    /\ pc = "l242"
    /\ fr.k > Len(config.top_bridge_positions)
    /\ LET all_children == <<fr.frame1, fr.frame2>> \o fr.bottom_bridges \o fr.top_bridges
           root == Alloc(heap, Compound("pc_frame", all_children))
       IN  /\ heap' = root.heap
           /\ returned' = Append(returned, Result(root.ref, config, fr))
    /\ pc' = "idle"
    /\ fr' = NoLocals
    /\ UNCHANGED <<config, attempt, error, lengths, stdout, calls, edits>>

CreateFrameStep ==
    \/ CallCreateFrame
    \/ ExtrudeVertical
    \/ ExtrudeHorizontal
    \/ ExtrudeBridge
    \/ CopyTemplates
    \/ LabelFront
    \/ LocateFront
    \/ ComposeFront
    \/ CopyFront
    \/ AdjustBackChild
    \/ BeginBottomBridges
    \/ PlaceBottomBridge
    \/ BeginTopBridges
    \/ PlaceTopBridge
    \/ ReturnFrame

Next ==
    \/ Construct
    \/ CalculateExtrusionLengths
    \/ PrintMaterialSummary
    \/ CreateFrameStep

Spec == Init /\ [][Next]_vars

(***************************************************************************)
(* The caller changing the config it holds: FrameConfig is a plain         *)
(* @dataclass, so its fields can be assigned and its lists changed in      *)
(* place; __post_init__ does not run again.                                *)
(***************************************************************************)
\* config.width = v, config.height = v or config.depth = v
AssignField ==
    /\ pc = "idle"
    /\ config.made
    /\ edits < MaxEdits
    /\ \/ \E v \in Widths : config' = [config EXCEPT !.width = v]
       \/ \E v \in Heights : config' = [config EXCEPT !.height = v]
       \/ \E v \in Depths : config' = [config EXCEPT !.depth = v]
    /\ config' # config
    /\ edits' = edits + 1
    /\ error' = NoError
    /\ lengths' = NoLengths
    /\ stdout' = NoPrint
    /\ UNCHANGED <<attempt, heap, pc, fr, returned, calls>>

\* config.bottom_bridge_positions.append(p) or config.top_bridge_positions.append(p)
AppendPosition ==
    /\ pc = "idle"
    /\ config.made
    /\ edits < MaxEdits
    /\ \E p \in Positions :
         \/ /\ Len(config.bottom_bridge_positions) < MaxBridges
            /\ config' = [config EXCEPT !.bottom_bridge_positions = Append(@, p)]
         \/ /\ Len(config.top_bridge_positions) < MaxBridges
            /\ config' = [config EXCEPT !.top_bridge_positions = Append(@, p)]
    /\ edits' = edits + 1
    /\ error' = NoError
    /\ lengths' = NoLengths
    /\ stdout' = NoPrint
    /\ UNCHANGED <<attempt, heap, pc, fr, returned, calls>>

NextMutable ==
    \/ Next
    \/ AssignField
    \/ AppendPosition

SpecMutable == Init /\ [][NextMutable]_vars

(***************************************************************************)
(* Reading a returned assembly.                                            *)
(***************************************************************************)
\* the Parts under ref, in child order
RECURSIVE Members(_, _), MembersOfAll(_, _)
Members(h, ref) ==
    IF h[ref].kind = "Part" THEN <<ref>> ELSE MembersOfAll(h, h[ref].children)

MembersOfAll(h, refs) ==
    IF refs = <<>> THEN <<>>
    ELSE Members(h, Head(refs)) \o MembersOfAll(h, Tail(refs))

\* the tree under ref as a value: labels, locations, lengths and children
RECURSIVE TreeOf(_, _)
TreeOf(h, ref) ==
    [kind |-> h[ref].kind, label |-> h[ref].label, location |-> h[ref].location,
     length |-> h[ref].length,
     children |-> [i \in 1..Len(h[ref].children) |-> TreeOf(h, h[ref].children[i])]]

RECURSIVE SumLengths(_, _)
SumLengths(h, refs) ==
    IF refs = <<>> THEN 0 ELSE h[Head(refs)].length + SumLengths(h, Tail(refs))

\* the validity the spec states for a config
InRange(c, p) == 0 <= p /\ p <= c.width - 40

ValidConfig(c) ==
    /\ \A i \in 1..Len(c.bottom_bridge_positions) : InRange(c, c.bottom_bridge_positions[i])
    /\ \A i \in 1..Len(c.top_bridge_positions) : InRange(c, c.top_bridge_positions[i])
    /\ c.width >= 40 /\ c.height >= 40 /\ c.depth >= 40

NumBridges(c) == Len(c.bottom_bridge_positions) + Len(c.top_bridge_positions)

(***************************************************************************)
(* C1.  For every valid config, the tree create_frame returns holds        *)
(* exactly 4 vertical members of length height - 20, 4 horizontal members  *)
(* of length width and one bridge member of length depth - 20 per bridge   *)
(* position, and the lengths of its members add up to                      *)
(* calculate_extrusion_lengths()["total_length_mm"], which is              *)
(* 4*(height-20) + 4*width + bridges*(depth-20).                           *)
(***************************************************************************)
VerticalLabels == {"front_left", "front_right", "back_left", "back_right"}
HorizontalLabels == {"front_top", "front_bottom", "back_top", "back_bottom"}

C1_MaterialMatchesAssembly ==
    \A n \in 1..Len(returned) :
        LET r == returned[n]
            c == r.config
            ms == Members(heap, r.root)
            vs == {i \in 1..Len(ms) : heap[ms[i]].label \in VerticalLabels}
            hs == {i \in 1..Len(ms) : heap[ms[i]].label \in HorizontalLabels}
            bs == (1..Len(ms)) \ (vs \cup hs)
        IN  ValidConfig(c) =>
              /\ Cardinality(vs) = 4
              /\ \A i \in vs : heap[ms[i]].length = c.height - 20
              /\ Cardinality(hs) = 4
              /\ \A i \in hs : heap[ms[i]].length = c.width
              /\ Cardinality(bs) = NumBridges(c)
              /\ \A i \in bs : heap[ms[i]].length = c.depth - 20
              /\ SumLengths(heap, ms) = calculate_extrusion_lengths(c).total_length_mm
              /\ SumLengths(heap, ms)
                   = 4 * (c.height - 20) + 4 * c.width + NumBridges(c) * (c.depth - 20)

C1_Witness ==
    \E n \in 1..Len(returned) :
        /\ ValidConfig(returned[n].config)
        /\ Len(returned[n].config.bottom_bridge_positions) = 2
        /\ Len(returned[n].config.top_bridge_positions) = 1
        /\ Len(Members(heap, returned[n].root)) = 11

(***************************************************************************)
(* C2.  FrameConfig(...) succeeds exactly when every bridge position lies  *)
(* in [0, width - 40] and width, height and depth are at least 40; in      *)
(* every other case it raises a validation error and the caller gets no    *)
(* object; a depth below 40 is rejected whatever the bridge lists are.     *)
(***************************************************************************)
C2_ConstructIffValid ==
    attempt.made =>
        /\ config.made <=> ValidConfig(attempt)
        /\ ~ValidConfig(attempt) => (config = NoConfig /\ error.kind = "AssertionError")
        /\ ValidConfig(attempt) => config = attempt
        /\ attempt.depth < 40 => ~config.made

C2_Witness ==
    /\ attempt.made
    /\ ~config.made
    /\ attempt.depth = 0
    /\ attempt.width >= 40 /\ attempt.height >= 40
    /\ \A i \in 1..Len(attempt.bottom_bridge_positions) :
           InRange(attempt, attempt.bottom_bridge_positions[i])
    /\ \A i \in 1..Len(attempt.top_bridge_positions) :
           InRange(attempt, attempt.top_bridge_positions[i])
    /\ Len(attempt.bottom_bridge_positions) = 2

(***************************************************************************)
(* C3.  When FrameConfig(...) fails, the error is that of the first        *)
(* failing check in the order: each bottom position in list order (not     *)
(* negative, then at most width - 40), each top position in list order     *)
(* (the same two checks), width >= 40, height >= 40, depth >= 40.  A       *)
(* bridge error names the list, the 1-based index and the value, an upper  *)
(* bound error also the bound width - 40; a dimension error names the      *)
(* field, its value and the minimum 40.                                    *)
(***************************************************************************)
\* the checks of one bridge list in the stated order, each with the error
\* it reports when it fails
C3_BridgeChecks(list, ps, bound) ==
    [j \in 1..(2 * Len(ps)) |->
        LET i == (j + 1) \div 2
        IN  IF j % 2 = 1
            THEN [fails |-> ps[i] < 0,
                  names |-> [kind |-> "AssertionError", subject |-> list,
                             check |-> "negative", index |-> <<i>>,
                             value |-> <<ps[i]>>, bound |-> <<>>]]
            ELSE [fails |-> ps[i] > bound,
                  names |-> [kind |-> "AssertionError", subject |-> list,
                             check |-> "exceeds", index |-> <<i>>,
                             value |-> <<ps[i]>>, bound |-> <<bound>>]]]

C3_DimensionCheck(field, v) ==
    [fails |-> v < 40,
     names |-> [kind |-> "AssertionError", subject |-> field, check |-> "minimum",
                index |-> <<>>, value |-> <<v>>, bound |-> <<40>>]]

C3_Checks(c) ==
    C3_BridgeChecks("Bottom bridge", c.bottom_bridge_positions, c.width - 40)
    \o C3_BridgeChecks("Top bridge", c.top_bridge_positions, c.width - 40)
    \o << C3_DimensionCheck("Width", c.width),
          C3_DimensionCheck("Height", c.height),
          C3_DimensionCheck("Depth", c.depth) >>

C3_FirstFailingCheckReported ==
    (attempt.made /\ ~config.made) =>
        LET checks == C3_Checks(attempt)
            failing == {j \in 1..Len(checks) : checks[j].fails}
        IN  /\ failing # {}
            /\ \E j \in failing :
                 /\ \A m \in failing : j <= m
                 /\ error = checks[j].names

\* a failing top position is reported although the depth is too small as well,
\* and it is the second entry of its list
C3_Witness ==
    /\ attempt.made
    /\ ~config.made
    /\ error.subject = "Top bridge"
    /\ error.check = "exceeds"
    /\ error.index = <<2>>
    /\ attempt.depth < 40
    /\ Len(attempt.bottom_bridge_positions) > 0

(***************************************************************************)
(* C4.  For any valid config the returned tree has a back_frame with       *)
(* exactly one member per front_frame member: back_X (X in left, right,    *)
(* top, bottom) has the X, the Z and the orientation of front_X and its Y  *)
(* is that of front_X plus depth; no back_frame member keeps a label       *)
(* starting with front_.                                                   *)
(***************************************************************************)
Sides == {"left", "right", "top", "bottom"}

\* the children of the frame that carry the label
C4_Named(frame, label) ==
    {i \in 1..Len(heap[frame].children) : heap[heap[frame].children[i]].label = label}

C4_BackMirrorsFront ==
    \A n \in 1..Len(returned) :
        LET c == returned[n].config
            front == heap[returned[n].root].children[1]
            back == heap[returned[n].root].children[2]
        IN  ValidConfig(c) =>
              /\ heap[front].label = "front_frame"
              /\ heap[back].label = "back_frame"
              /\ Len(heap[back].children) = Len(heap[front].children)
              /\ Len(heap[front].children) = 4
              /\ \A i \in 1..Len(heap[back].children) :
                     SubSeq(heap[heap[back].children[i]].label, 1, 6) # "front_"
              /\ \A x \in Sides :
                   /\ Cardinality(C4_Named(front, "front_" \o x)) = 1
                   /\ Cardinality(C4_Named(back, "back_" \o x)) = 1
                   /\ \A i \in C4_Named(front, "front_" \o x),
                         j \in C4_Named(back, "back_" \o x) :
                        LET f == heap[heap[front].children[i]].location
                            b == heap[heap[back].children[j]].location
                        IN  /\ b.position[1] = f.position[1]
                            /\ b.position[2] = f.position[2] + c.depth
                            /\ b.position[3] = f.position[3]
                            /\ b.orientation = f.orientation

C4_Witness ==
    \E n \in 1..Len(returned) :
        LET back == heap[returned[n].root].children[2]
        IN  /\ ValidConfig(returned[n].config)
            /\ returned[n].config.depth = 50
            /\ \E i \in 1..Len(heap[back].children) :
                 /\ heap[heap[back].children[i]].label = "back_top"
                 /\ heap[heap[back].children[i]].location.position = <<0, 50, 50>>

(***************************************************************************)
(* C5.  For any valid config the returned root is labelled pc_frame and    *)
(* has 2 + len(bottom) + len(top) children in this order: front_frame,     *)
(* back_frame, one bridge per bottom position in list order (the i-th      *)
(* labelled bottom_bridge_i, at (x_pos, depth, -20), turned 90 degrees     *)
(* about X), then one bridge per top position in list order (top_bridge_i, *)
(* at (x_pos, depth, height - 20), same rotation).  Unsorted and duplicate *)
(* positions are kept as given; with both lists empty the root has exactly *)
(* the two frames.                                                         *)
(***************************************************************************)
C5_Digits == <<"1", "2", "3", "4", "5", "6", "7", "8", "9">>

C5_RootChildrenInOrder ==
    \A n \in 1..Len(returned) :
        LET c == returned[n].config
            root == heap[returned[n].root]
            nb == Len(c.bottom_bridge_positions)
            nt == Len(c.top_bridge_positions)
            kid(i) == heap[root.children[i]]
        IN  ValidConfig(c) =>
              /\ root.label = "pc_frame"
              /\ Len(root.children) = 2 + nb + nt
              /\ kid(1).label = "front_frame"
              /\ kid(2).label = "back_frame"
              /\ \A i \in 1..nb :
                   /\ kid(2 + i).label = "bottom_bridge_" \o C5_Digits[i]
                   /\ kid(2 + i).location.position
                        = <<c.bottom_bridge_positions[i], c.depth, -20>>
                   /\ kid(2 + i).location.orientation = <<90, 0, 0>>
              /\ \A i \in 1..nt :
                   /\ kid(2 + nb + i).label = "top_bridge_" \o C5_Digits[i]
                   /\ kid(2 + nb + i).location.position
                        = <<c.top_bridge_positions[i], c.depth, c.height - 20>>
                   /\ kid(2 + nb + i).location.orientation = <<90, 0, 0>>
              /\ (nb = 0 /\ nt = 0) =>
                   (Len(root.children) = 2 /\ Len(Members(heap, returned[n].root)) = 8)

\* unsorted bottom positions and duplicate top positions, kept as given
C5_Witness ==
    \E n \in 1..Len(returned) :
        LET c == returned[n].config
            root == heap[returned[n].root]
        IN  /\ ValidConfig(c)
            /\ c.bottom_bridge_positions = <<20, 0>>
            /\ c.top_bridge_positions = <<20, 20>>
            /\ Len(root.children) = 6
            /\ heap[root.children[4]].label = "bottom_bridge_2"
            /\ heap[root.children[4]].location.position[1] = 0

(***************************************************************************)
(* C6.  A FrameConfig is immutable once validated: no later operation,     *)
(* assignments to its fields and in-place changes of its lists included,   *)
(* changes it, so in every reachable state, and whenever it is passed to   *)
(* create_frame, it is the config that was validated and it is valid.      *)
(***************************************************************************)
C6_ConfigImmutableAndValid ==
    config.made =>
        /\ config = attempt
        /\ ValidConfig(config)
        /\ \A n \in 1..Len(returned) : ValidConfig(returned[n].config)

(***************************************************************************)
(* C7.  When one of the three extrusion_2020 calls of create_frame yields  *)
(* no solid, create_frame fails with that error and returns nothing: no    *)
(* partial tree, no member skipped or substituted, and the error is of     *)
(* another kind than the validation error of FrameConfig.                  *)
(***************************************************************************)
\* the kinds of error that constructing a FrameConfig raises in the model
C7_ValidationKinds ==
    {PostInit(FrameConfig(w, h, d, <<>>, <<>>)).kind :
        w \in Widths, h \in Heights, d \in Depths} \ {"none"}

C7_ExtrusionFailureIsFatal ==
    \* an error raised once create_frame was called is one of create_frame
    /\ (calls > 0 /\ error.kind # "none") =>
         /\ error.kind = "ValueError"
         /\ error.kind \notin C7_ValidationKinds
         /\ pc = "idle"
         /\ fr = NoLocals
         /\ Len(returned) < calls
    \* a call goes on only while nothing was raised
    /\ pc # "idle" => error.kind = "none"
    \* every assembly on the heap is complete and was returned, or belongs to
    \* the call that is still running
    /\ \A ref \in 1..Len(heap) :
         heap[ref].kind = "Compound" =>
           \/ \E n \in 1..Len(returned) :
                ref \in {returned[n].root, returned[n].frame1, returned[n].frame2}
           \/ pc # "idle" /\ ref \in {fr.frame1, fr.frame2}
    /\ \A n \in 1..Len(returned) :
         Len(Members(heap, returned[n].root)) = 8 + NumBridges(returned[n].config)

\* an extrusion failed in a second call, whose predecessor returned a tree
\* that is still whole
C7_Witness ==
    /\ error.kind = "ValueError"
    /\ pc = "idle"
    /\ calls = 2
    /\ Len(returned) = 1
    /\ Len(heap) = returned[1].root
    /\ Len(Members(heap, returned[1].root)) = 10

(***************************************************************************)
(* C8.  Two create_frame calls with the same, unmodified config return     *)
(* trees with the same structure, labels, positions and orientations,      *)
(* member by member and in the same child order; the first call leaves     *)
(* nothing behind that changes the second, and leaves the config as it     *)
(* was.                                                                    *)
(***************************************************************************)
C8_SameConfigSameTree ==
    \A m, n \in 1..Len(returned) :
        returned[m].edits = returned[n].edits =>
          /\ returned[m].config = returned[n].config
          /\ TreeOf(heap, returned[m].root) = TreeOf(heap, returned[n].root)
          /\ m # n => returned[m].root # returned[n].root

C8_Witness ==
    /\ Len(returned) = 2
    /\ returned[1].edits = returned[2].edits
    /\ Len(returned[1].config.bottom_bridge_positions) = 2
    /\ Len(returned[1].config.top_bridge_positions) = 1
    /\ Len(TreeOf(heap, returned[2].root).children) = 5

(***************************************************************************)
(* C10.  Copy before mutate: every label or location assignment of         *)
(* create_frame acts on an independent copy.  The three templates keep the *)
(* label and the location they were created with, every placed member      *)
(* keeps the label and the location of its own placement, and relabelling  *)
(* and shifting the back_frame members leaves every front_frame member     *)
(* with its front_ label and Y = 0.                                        *)
(***************************************************************************)
C10_Set(seq) == {seq[i] : i \in 1..Len(seq)}

\* the templates of the calls that returned and of the running call
C10_Templates ==
    ({fr.vertical_extrusion, fr.horizontal_extrusion, fr.bridge_extrusion}
     \cup UNION {{returned[n].vertical_extrusion, returned[n].horizontal_extrusion,
                  returned[n].bridge_extrusion} : n \in 1..Len(returned)}) \ {0}

\* the front_frame members of the calls that returned, and of the running
\* call once they are placed
C10_FrontMembers ==
    UNION {C10_Set(heap[returned[n].frame1].children) : n \in 1..Len(returned)}
    \cup (IF pc \in {"l190", "l196", "l200", "l228", "l242"}
          THEN {fr.left1, fr.right1, fr.top1, fr.bottom1} ELSE {})

\* the objects whose placement is over: no later statement may change them
C10_Placed ==
    C10_Templates
    \cup C10_FrontMembers
    \cup (IF Len(returned) > 0 THEN 1..returned[Len(returned)].root ELSE {})
    \cup (IF pc \in {"l200", "l228", "l242"} THEN {fr.frame1} ELSE {})
    \cup (IF pc = "l200"
          THEN {heap[fr.frame2].children[i] : i \in 1..(fr.k - 1)} ELSE {})
    \cup (IF pc \in {"l228", "l242"}
          THEN {fr.frame2} \cup C10_Set(heap[fr.frame2].children) ELSE {})
    \cup C10_Set(fr.bottom_bridges)
    \cup C10_Set(fr.top_bridges)

C10_CopyBeforeMutate ==
    /\ [](/\ \A t \in C10_Templates :
                /\ heap[t].label = ""
                /\ heap[t].location = [position |-> <<0, 0, 0>>,
                                       orientation |-> <<0, 0, 0>>]
          /\ \A f \in C10_FrontMembers :
                /\ heap[f].label \in {"front_left", "front_right",
                                      "front_top", "front_bottom"}
                /\ heap[f].location.position[2] = 0)
    \* an object that is placed changes no more while it exists
    /\ [][\A ref \in C10_Placed : ref <= Len(heap') => heap'[ref] = heap[ref]]_vars

\* the back members are shifted and the bridges placed, the front members
\* and the templates being as they were
C10_Witness ==
    /\ Len(returned) = 1
    /\ heap[returned[1].vertical_extrusion].label = ""
    /\ heap[returned[1].bridge_extrusion].location.position = <<0, 0, 0>>
    /\ \A i \in 1..4 :
         /\ heap[heap[returned[1].frame2].children[i]].location.position[2] = 50
         /\ heap[heap[returned[1].frame1].children[i]].location.position[2] = 0
    /\ Len(heap[returned[1].root].children) = 5
    /\ heap[heap[returned[1].root].children[3]].label = "bottom_bridge_1"
    /\ heap[heap[returned[1].root].children[4]].label = "bottom_bridge_2"

(***************************************************************************)
(* The space a placed member occupies.  A bar's local cross-section is     *)
(* [0,20] x [0,20] in X, Y and it runs from 0 to its length along Z; its   *)
(* location turns it about X, Y, Z and then moves it to its position.      *)
(***************************************************************************)
\* the corners of a bar of the given length before it is placed
ProfileCorners(length) ==
    {<<x, y, z>> : x \in {0, EXTRUSION_2020_SIZE}, y \in {0, EXTRUSION_2020_SIZE},
                   z \in {0, length}}

\* a turn by a multiple of 90 degrees about one axis (1 = X, 2 = Y, 3 = Z),
\* counter-clockwise seen from the positive end of the axis
RECURSIVE Turn(_, _, _)
Turn(v, axis, degrees) ==
    IF degrees % 360 = 0 THEN v
    ELSE LET quarter == CASE axis = 1 -> <<v[1], -v[3], v[2]>>
                          [] axis = 2 -> <<v[3], v[2], -v[1]>>
                          [] axis = 3 -> <<-v[2], v[1], v[3]>>
         IN  Turn(quarter, axis, degrees - RIGHT_ANGLE)

\* bd.Location(position, orientation) applied to a point of the shape
Place(location, v) ==
    LET o == location.orientation
        turned == Turn(Turn(Turn(v, 3, o[3]), 2, o[2]), 1, o[1])
    IN  <<turned[1] + location.position[1],
          turned[2] + location.position[2],
          turned[3] + location.position[3]>>

Lowest(S) == CHOOSE v \in S : \A u \in S : v <= u
Highest(S) == CHOOSE v \in S : \A u \in S : v >= u

\* the axis-aligned box the members refs occupy together
Extent(h, refs) ==
    LET pts == UNION {{Place(h[m].location, p) : p \in ProfileCorners(h[m].length)} :
                      m \in refs}
    IN  [lo |-> [a \in 1..3 |-> Lowest({p[a] : p \in pts})],
         hi |-> [a \in 1..3 |-> Highest({p[a] : p \in pts})]]

(***************************************************************************)
(* C9.  For any valid config the four front_frame members form a closed    *)
(* rectangle in the X-Z plane, the verticals inset between the two         *)
(* horizontals.  As stated, its outer extent is exactly width along X and  *)
(* exactly height along Z.                                                 *)
(***************************************************************************)
C9_Front(r) == {heap[r.frame1].children[i] : i \in 1..Len(heap[r.frame1].children)}

C9_Member(r, label) == CHOOSE m \in C9_Front(r) : heap[m].label = label

\* the 10 mm cells of the X-Z plane, named by their lower corner, that lie in
\* the box from lo to hi
C9_Cells(lo, hi) ==
    {<<10 * x, 10 * z>> : x \in (lo[1] \div 10)..((hi[1] \div 10) - 1),
                          z \in (lo[3] \div 10)..((hi[3] \div 10) - 1)}

====
